---- MODULE Spec2Model ----
(***************************************************************************)
(* A model of study_tutor.py: the note parser and markup converters as     *)
(* operators over character sequences, and the interactive session         *)
(* (main, the retry loop around generate_content, save_note and the        *)
(* AnkiConnect calls) as a state machine.                                  *)
(*                                                                         *)
(* A Python str is a sequence of one-character strings; None is kept       *)
(* apart from the empty str by wrapping: None is <<>> and the str s is     *)
(* <<s>>.                                                                  *)
(***************************************************************************)
EXTENDS Integers, Sequences, FiniteSets, TLC

\* ------------------------------------------------------------------------
\* Python str primitives
\* ------------------------------------------------------------------------

\* The characters str.strip() removes and the regex class \s matches.
Whitespace == {" ", "\t", "\n"}

None == <<>>

Some(s) == <<s>>

\* A faulty Truthy: only None is falsy.
NotNone(opt) == opt # None

\* Python truthiness of an optional str: None and "" are falsy.
Truthy(opt) == opt # None /\ opt[1] # <<>>

Min(S) == CHOOSE i \in S : \A j \in S : i <= j

\* s[i:] of Python, with i counted from 1.
From(s, i) == SubSeq(s, i, Len(s))

\* The number of leading whitespace characters of s: len of the match of ^(\s*).
LeadingWhitespace(s) ==
    Min({i \in 1..(Len(s) + 1) : i = Len(s) + 1 \/ s[i] \notin Whitespace}) - 1

lstrip(s) == From(s, LeadingWhitespace(s) + 1)

\* The number of trailing whitespace characters of s.
TrailingWhitespace(s) ==
    Min({n \in 0..Len(s) : n = Len(s) \/ s[Len(s) - n] \notin Whitespace})

rstrip(s) == SubSeq(s, 1, Len(s) - TrailingWhitespace(s))

strip(s) == rstrip(lstrip(s))

\* The literal p occurs in s at position i.
MatchAt(s, p, i) == i >= 1 /\ i + Len(p) - 1 <= Len(s) /\ SubSeq(s, i, i + Len(p) - 1) = p

\* The positions >= i at which the literal p occurs in s.
Occurrences(s, p, i) == {k \in i..Len(s) : MatchAt(s, p, k)}

\* p in s
Contains(s, p) == p = <<>> \/ Occurrences(s, p, 1) # {}

startswith(s, p) == MatchAt(s, p, 1) \/ p = <<>>

\* The lower-case letter of each upper-case (ASCII) letter.
LowerOf ==
    [A |-> "a", B |-> "b", C |-> "c", D |-> "d", E |-> "e", F |-> "f", G |-> "g",
     H |-> "h", I |-> "i", J |-> "j", K |-> "k", L |-> "l", M |-> "m", N |-> "n",
     O |-> "o", P |-> "p", Q |-> "q", R |-> "r", S |-> "s", T |-> "t", U |-> "u",
     V |-> "v", W |-> "w", X |-> "x", Y |-> "y", Z |-> "z"]

\* str.lower() of one character.
LowerChar(c) == IF c \in DOMAIN LowerOf THEN LowerOf[c] ELSE c

\* str.lower()
lower(s) ==
    LET lowered == [i \in 1..Len(s) |-> LowerChar(s[i])]
    IN SubSeq(lowered, 1, Len(s))

\* str.split(sep) for a non-empty separator: "" splits to [""].
RECURSIVE split(_, _)
split(s, sep) ==
    IF Occurrences(s, sep, 1) = {}
    THEN <<s>>
    ELSE LET i == Min(Occurrences(s, sep, 1))
         IN <<SubSeq(s, 1, i - 1)>> \o split(From(s, i + Len(sep)), sep)

\* str.replace(old, new): leftmost non-overlapping occurrences.
RECURSIVE replace(_, _, _)
replace(s, old, new) ==
    IF Occurrences(s, old, 1) = {}
    THEN s
    ELSE LET i == Min(Occurrences(s, old, 1))
         IN SubSeq(s, 1, i - 1) \o new \o replace(From(s, i + Len(old)), old, new)

\* sep.join(parts)
RECURSIVE join(_, _)
join(sep, parts) ==
    IF parts = <<>> THEN <<>>
    ELSE IF Len(parts) = 1 THEN parts[1]
    ELSE parts[1] \o sep \o join(sep, Tail(parts))

\* ------------------------------------------------------------------------
\* Literals of the program
\* ------------------------------------------------------------------------

NL == <<"\n">>
BoldMark == <<"*", "*">>
BR == <<"<", "b", "r", ">">>
NBSP == <<"&", "n", "b", "s", "p", ";">>
BOpen == <<"<", "b", ">">>
BClose == <<"<", "/", "b", ">">>
IOpen == <<"<", "i", ">">>
IClose == <<"<", "/", "i", ">">>
GrammarColon == <<"g", "r", "a", "m", "m", "a", "r", ":">>
HashesGrammar == <<"#", "#", "#", " ", "g", "r", "a", "m", "m", "a", "r">>
HashesGrammarColon == HashesGrammar \o <<":">>
Hashes == <<"#", "#", "#">>

\* ------------------------------------------------------------------------
\* _markdown_to_html_for_anki
\* ------------------------------------------------------------------------

\* \*\*(.*?)\*\* matches at position p of s: a `**`, then the first later `**`,
\* with no newline between them (the lazy group takes the shortest content).
BoldAt(s, p) ==
    /\ MatchAt(s, BoldMark, p)
    /\ Occurrences(s, BoldMark, p + 2) # {}
    /\ \A n \in (p + 2)..(Min(Occurrences(s, BoldMark, p + 2)) - 1) : s[n] # "\n"

\* re.sub(r"\*\*(.*?)\*\*", r"<b>\1</b>", s): leftmost matches, left to right.
RECURSIVE SubBold(_)
SubBold(s) ==
    IF {p \in 1..Len(s) : BoldAt(s, p)} = {} THEN s
    ELSE LET p == Min({n \in 1..Len(s) : BoldAt(s, n)})
             k == Min(Occurrences(s, BoldMark, p + 2))
         IN SubSeq(s, 1, p - 1) \o BOpen \o SubSeq(s, p + 2, k - 1) \o BClose
                \o SubBold(From(s, k + 2))

\* The positions after p that hold an asterisk.
StarsAfter(s, p) == {k \in (p + 1)..Len(s) : s[k] = "*"}

\* (?<!\*)\*([^*\n]+?)\*(?!\*) matches at position p of s: the group holds no
\* asterisk, so the closing asterisk is the first one after p.
ItalicAt(s, p) ==
    /\ s[p] = "*"
    /\ (p = 1 \/ s[p - 1] # "*")
    /\ StarsAfter(s, p) # {}
    /\ LET q == Min(StarsAfter(s, p))
       IN /\ q >= p + 2
          /\ \A n \in (p + 1)..(q - 1) : s[n] # "\n"
          /\ (q = Len(s) \/ s[q + 1] # "*")

\* re.sub of the italic pattern over s[p:], the lookbehind reading s[p-1].
RECURSIVE SubItalicFrom(_, _)
SubItalicFrom(s, p) ==
    IF {n \in p..Len(s) : ItalicAt(s, n)} = {} THEN From(s, p)
    ELSE LET m == Min({n \in p..Len(s) : ItalicAt(s, n)})
             q == Min(StarsAfter(s, m))
         IN SubSeq(s, p, m - 1) \o IOpen \o SubSeq(s, m + 1, q - 1) \o IClose
                \o SubItalicFrom(s, q + 1)

SubItalic(s) == SubItalicFrom(s, 1)

\* ^\s*[\*-]\s+ matches s: whitespace, one marker, at least one whitespace.
HasListMarker(s) ==
    LET i == LeadingWhitespace(s)
    IN /\ i + 2 <= Len(s)
       /\ s[i + 1] \in {"*", "-"}
       /\ s[i + 2] \in Whitespace

\* re.sub(r"^\s*[\*-]\s+", "", s)
StripListMarker(s) ==
    IF HasListMarker(s) THEN lstrip(From(s, LeadingWhitespace(s) + 2)) ELSE s

\* The cap on the non-breaking spaces of one line's indentation.
IndentCap == 8

RECURSIVE Repeat(_, _)
Repeat(s, n) == IF n = 0 THEN <<>> ELSE s \o Repeat(s, n - 1)

\* The body of the loop over lines.
ConvertLine(line) ==
    IF strip(line) = <<>> THEN BR
    ELSE LET marked == SubItalic(SubBold(line))
             indent_level == LeadingWhitespace(line)
             stripped == StripListMarker(marked)
         IN IF indent_level > 0
            THEN Repeat(NBSP, IF indent_level < IndentCap THEN indent_level ELSE IndentCap)
                     \o stripped
            ELSE stripped

\* The number of consecutive <br> at the head of s.
RECURSIVE CountBR(_)
CountBR(s) == IF MatchAt(s, BR, 1) THEN 1 + CountBR(From(s, Len(BR) + 1)) ELSE 0

\* re.sub(r"(<br>){3,}", "<br><br>", s)
RECURSIVE CollapseBreaks(_)
CollapseBreaks(s) ==
    IF {p \in 1..Len(s) : CountBR(From(s, p)) >= 3} = {} THEN s
    ELSE LET p == Min({n \in 1..Len(s) : CountBR(From(s, n)) >= 3})
         IN SubSeq(s, 1, p - 1) \o BR \o BR
                \o CollapseBreaks(From(s, p + CountBR(From(s, p)) * Len(BR)))

_markdown_to_html_for_anki(text) ==
    IF text = <<>> THEN <<>>
    ELSE LET lines == split(text, NL)
             converted == [i \in 1..Len(lines) |-> ConvertLine(lines[i])]
             html_lines == SubSeq(converted, 1, Len(lines))
         IN strip(CollapseBreaks(join(BR, html_lines)))

\* ------------------------------------------------------------------------
\* _html_to_markdown_for_console
\* ------------------------------------------------------------------------

_html_to_markdown_for_console(html_text) ==
    IF html_text = <<>> THEN <<>>
    ELSE LET t1 == replace(html_text, BR, NL)
             t2 == replace(t1, NBSP, <<" ">>)
             t3 == replace(replace(t2, BOpen, BoldMark), BClose, BoldMark)
         IN replace(replace(t3, IOpen, <<"*">>), IClose, <<"*">>)

\* ------------------------------------------------------------------------
\* _parse_note_for_anki
\* ------------------------------------------------------------------------

\* re.search(r"###\s*Grammar:", line, re.IGNORECASE)
GrammarHeader(line) ==
    \E p \in Occurrences(line, Hashes, 1) :
        startswith(lower(lstrip(From(line, p + Len(Hashes)))), GrammarColon)

\* re.search(r"^\s*[\*-]\s+\*\*(.*?)\*\*(.*)", line): None, or the two groups.
HeaderMatch(line) ==
    LET i == LeadingWhitespace(line)
        j == i + 2 + LeadingWhitespace(From(line, i + 2))
    IN IF /\ HasListMarker(line)
          /\ MatchAt(line, BoldMark, j)
          /\ Occurrences(line, BoldMark, j + 2) # {}
       THEN LET k == Min(Occurrences(line, BoldMark, j + 2))
            IN Some([group1 |-> SubSeq(line, j + 2, k - 1), group2 |-> From(line, k + 2)])
       ELSE None

\* The number of leading lines searched for a grammar header: lines[:3].
GrammarLines == 3

\* A faulty _parse_note_for_anki: the vocabulary pattern is tried before the grammar
\* headers.
_parse_note_vocabulary_first(note_content) ==
    LET lines == split(strip(note_content), NL)
        first_line_lower == lower(strip(lines[1]))
        header_match == HeaderMatch(lines[1])
    IN IF header_match # None
       THEN LET front == strip(header_match[1].group1)
                back_part1 == strip(header_match[1].group2)
                back_part2 == strip(join(NL, Tail(lines)))
                full_back_content == strip(back_part1 \o NL \o back_part2)
            IN [front |-> Some(front),
                back |-> Some(_markdown_to_html_for_anki(full_back_content)),
                reason |-> None]
       ELSE IF \/ Contains(first_line_lower, HashesGrammarColon)
               \/ startswith(first_line_lower, HashesGrammar)
               \/ \E n \in 1..Len(lines) : n <= GrammarLines /\ GrammarHeader(lines[n])
       THEN [front |-> None, back |-> None, reason |-> Some("grammar")]
       ELSE [front |-> None, back |-> None, reason |-> None]

_parse_note_for_anki(note_content) ==
    LET lines == split(strip(note_content), NL)
        first_line_lower == lower(strip(lines[1]))
        header_match == HeaderMatch(lines[1])
    IN IF \/ Contains(first_line_lower, HashesGrammarColon)
          \/ startswith(first_line_lower, HashesGrammar)
       THEN [front |-> None, back |-> None, reason |-> Some("grammar")]
       ELSE IF \E n \in 1..Len(lines) : n <= GrammarLines /\ GrammarHeader(lines[n])
       THEN [front |-> None, back |-> None, reason |-> Some("grammar")]
       ELSE IF header_match # None
       THEN LET front == strip(header_match[1].group1)
                back_part1 == strip(header_match[1].group2)
                back_part2 == strip(join(NL, Tail(lines)))
                full_back_content == strip(back_part1 \o NL \o back_part2)
            IN [front |-> Some(front),
                back |-> Some(_markdown_to_html_for_anki(full_back_content)),
                reason |-> None]
       ELSE [front |-> None, back |-> None, reason |-> None]

\* ------------------------------------------------------------------------
\* The session: state
\* ------------------------------------------------------------------------

VARIABLES
    pc,                  \* where main() stands: "load" (line 539), "prompt" (line 551),
                         \* "generate" (line 569), "responded" (line 604), "save_prompt"
                         \* (line 638), "dup_prompt" (line 372), "returned" (line 642,
                         \* save_note has returned), "exited" (the loop was left by
                         \* break), "error" (the handler of line 655 ran),
                         \* "interrupted" (a KeyboardInterrupt left main);
                         \* in check_yomitan_cards: "batch_generate" (line 481),
                         \* "feedback_prompt" (line 504), "batch_prompt" (line 519),
                         \* "checked" (it has returned to line 564)
    anki_notes_cache,    \* front -> [back, id]
    next_id,             \* the id Anki gives the next note it adds
    added,               \* the notes Anki added in this session: front and id, in order
    current_retry_count,
    response_text,       \* the text the retry loop was left with
    proposed_notes,      \* parts[1:] of the response under review
    idx,                 \* the for loop's position in proposed_notes (0: not in the loop)
    notes_saved_count,
    saved_count,         \* what line 653 reported for the current question (0: nothing)
    calls,               \* generate_content calls made for the current question
    slept,               \* the time.sleep durations of the current question, in order
    signals,             \* what the service answered to each of those calls
    reasked,             \* the prompt now shown follows an invalid answer to it
    last_event,          \* the input or service event the last step handled
    cache_before,        \* anki_notes_cache as the current save_note call found it
    anki_log,            \* the AnkiConnect requests that call sent, with their fate
    decisions,           \* the k/o decisions that call took
    outcome,             \* which return statement of save_note ran
    save_result,         \* and the value it returned
    note_content,        \* the block handed to _parse_note_for_anki (parser runs)
    parsed,              \* and what it returned
    converted,           \* what _markdown_to_html_for_anki returned for it (converter runs)
    shown,               \* the blocks of the response under review shown as items so far
    yomitan_notes,       \* check_yomitan_cards: the ids of the notes tagged yomitan
    batch_start,         \* its loop variable i: the offset of the current batch
    batch_calls,         \* the offsets of the batches generate_content was called for
    feedback_items,      \* the feedback items of the current batch
    feedback_idx,        \* the position of its inner loop (0: not in the loop)
    tag_log              \* the removeTags requests it sent, with their fate

retryVars == <<current_retry_count, calls, slept, signals>>
callVars == <<cache_before, anki_log, decisions, outcome, save_result>>
loopVars == <<response_text, proposed_notes, idx, notes_saved_count, saved_count>>
ankiVars == <<anki_notes_cache, next_id, added>>
parserVars == <<note_content, parsed, converted>>
batchVars == <<yomitan_notes, batch_start, batch_calls, feedback_items, feedback_idx, tag_log>>

vars ==
    <<pc, ankiVars, retryVars, loopVars, callVars, reasked, last_event, parserVars, shown,
      batchVars>>

RETRY_COUNT == 3

\* ------------------------------------------------------------------------
\* The session: inputs
\* ------------------------------------------------------------------------

\* The most proposals one generated tutor response carries.
MaxProposals == 2

Tag == <<"[", "P", "R", "O", "P", "O", "S", "E", "D", "_", "N", "O", "T", "E", "]", ":">>

\* "- **a** x"
BlockA1 == <<"-", " ", "*", "*", "a", "*", "*", " ", "x">>
\* "\n- ** a ** *y*\n": the bold span is padded
BlockA2 ==
    <<"\n", "-", " ", "*", "*", " ", "a", " ", "*", "*", " ", "*", "y", "*", "\n">>
\* "### Grammar: x"
BlockGrammar == <<"#", "#", "#", " ", "G", "r", "a", "m", "m", "a", "r", ":", " ", "x">>
\* "- ** ** x": a bold span holding only a space
BlockNoFront == <<"-", " ", "*", "*", " ", "*", "*", " ", "x">>
\* " \n": nothing once stripped
BlockBlank == <<" ", "\n">>

Blocks == {BlockA1, BlockA2, BlockGrammar}

RECURSIVE Tagged(_)
Tagged(bs) == IF bs = <<>> THEN <<>> ELSE Tag \o Head(bs) \o Tagged(Tail(bs))

BlockLists == UNION {[1..n -> Blocks] : n \in 1..MaxProposals}

\* The texts the generation service may return: an answer without proposals, answers
\* followed by tagged proposals, and answers that start with the tag and hold a
\* blank proposal.
Responses ==
    {<<"o", "k">>, Tagged(<<BlockBlank, BlockNoFront>>), Tagged(<<BlockBlank>>)}
        \cup {<<"o", "k", "\n">> \o Tagged(bs) : bs \in BlockLists}

\* What notesInfo may return when the cache is loaded: Front, Back and noteId of
\* each note of the deck.
StoredNote(front, back, id) == [Front |-> front, Back |-> back, noteId |-> id]

StoredDecks ==
    {<<StoredNote(<<" ", "b", " ">>, <<"o", "l", "d">>, 1), StoredNote(<<" ">>, <<"x">>, 2)>>,
     <<StoredNote(<<"a">>, <<"x">>, 1), StoredNote(<<"b">>, <<"<", "b", ">", "x">>, 2)>>}

\* What the user may type at a y/n or k/o prompt.
Answers == {<<"y">>, <<" ", "Y">>, <<>>, <<"n">>, <<"K">>, <<"o">>, <<"O", " ">>, <<"x">>}

\* What the user may type at the question prompt.
Questions ==
    {<<"q", "u", "i", "t">>, <<"E", "x", "i", "t">>, <<"h", "i">>, <<" ", "q", "u", "i", "t">>,
     <<"C", "h", "e", "c", "k", " ", "y", "o", "m", "i", "t", "a", "n">>}

\* batch_size of check_yomitan_cards (line 446).
BATCH_SIZE == 10

\* The most batches the notes tagged yomitan make.
MaxBatches == 2

FeedbackTag == <<"[", "C", "A", "R", "D", "_", "F", "E", "E", "D", "B", "A", "C", "K", "]", ":">>

\* What get_notes_by_tag may return, as the ids of the notes: none (also when
\* AnkiConnect fails), or as many as fill b - 1 batches and start another.
YomitanNotes ==
    {<<>>} \cup {[n \in 1..(BATCH_SIZE * (b - 1) + 1) |-> n] : b \in 1..MaxBatches}

\* The texts the service may return for a batch: an introduction followed by
\* tagged items, one of them blank; a blank before the first tag; no tag at all; a
\* last item that is blank.
BatchResponses ==
    {<<"o", "k", "\n">> \o FeedbackTag \o <<"f">> \o FeedbackTag \o <<" ", "\n">>
         \o FeedbackTag \o <<" ", "g">>,
     <<" ">> \o FeedbackTag \o <<"f", "\n">>,
     <<"o", "k">>,
     FeedbackTag \o <<"f">> \o FeedbackTag \o <<" ">>}

\* What the user may type at a "Press Enter" prompt.
EnterAnswers == {<<>>, <<"Q">>, <<"q", "u", "i", "t", " ">>, <<"x">>}

\* ------------------------------------------------------------------------
\* The session: operations
\* ------------------------------------------------------------------------

Put(cache, front, entry) ==
    [f \in DOMAIN cache \cup {front} |-> IF f = front THEN entry ELSE cache[f]]

\* A faulty LoadNotes: the Front values are stored as they come, neither stripped
\* nor tested for emptiness.
RECURSIVE LoadNotesUnstripped(_, _)
LoadNotesUnstripped(cache, notes_info) ==
    IF notes_info = <<>> THEN cache
    ELSE LET note == Head(notes_info)
         IN LoadNotesUnstripped(
                Put(cache, note.Front, [back |-> note.Back, id |-> note.noteId]),
                Tail(notes_info))

\* load_anki_cache: the loop over notes_info, later notes replacing earlier ones.
RECURSIVE LoadNotes(_, _)
LoadNotes(cache, notes_info) ==
    IF notes_info = <<>> THEN cache
    ELSE LET note == Head(notes_info)
             front_val == strip(note.Front)
         IN LoadNotes(IF front_val # <<>>
                      THEN Put(cache, front_val, [back |-> note.Back, id |-> note.noteId])
                      ELSE cache,
                      Tail(notes_info))

\* input(...).lower().strip()
Choice(typed) == strip(lower(typed))

\* The answers that make main call save_note (line 640).
Accepts(typed) == Choice(typed) = <<"y">> \/ Choice(typed) = <<>>

\* user_question.lower() in ["quit", "exit"] (line 557)
IsQuit(user_question) ==
    lower(user_question) \in {<<"q", "u", "i", "t">>, <<"e", "x", "i", "t">>}

\* user_question.lower() == "check yomitan" (line 562)
IsCheckYomitan(user_question) ==
    lower(user_question) = <<"c", "h", "e", "c", "k", " ", "y", "o", "m", "i", "t", "a", "n">>

\* feedback_items of a response (lines 489-492): the segments between the tags,
\* without the first one when it is blank.
FeedbackItems(text) ==
    LET items == split(text, FeedbackTag)
    IN IF strip(items[1]) = <<>> THEN Tail(items) ELSE items

\* The note ids of the batch at offset i (lines 448-455).
BatchIds(notes, i) ==
    {notes[n] : n \in {m \in DOMAIN notes : i < m /\ m <= i + BATCH_SIZE}}

\* The note the for loop of main is at, stripped (line 623).
CurrentNote == strip(proposed_notes[idx])

\* A faulty NextProposal: blank proposals are not skipped.
NextProposalWithBlanks(notes, i) == IF i < Len(notes) THEN i + 1 ELSE 0

\* The next index after i whose proposal is not empty once stripped (lines 622-625);
\* 0 if none.
NextProposal(notes, i) ==
    LET rest == {j \in (i + 1)..Len(notes) : strip(notes[j]) # <<>>}
    IN IF rest = {} THEN 0 ELSE Min(rest)

\* A faulty InCache: the front is looked up among the stored backs.
InCacheByBack(front, cache) == \E f \in DOMAIN cache : cache[f].back = front

\* front in anki_notes_cache (line 354)
InCache(front, cache) == front \in DOMAIN cache

\* current_retry_count < RETRY_COUNT (lines 581 and 592)
RetryAllowed(count) == count < RETRY_COUNT

\* A faulty EmptyDelay: the empty-response branch backs off like the 503 branch.
EmptyDelayExponential(count) == 2 ^ count

\* The sleep before resending after an empty response (line 582).
EmptyDelay(count) == 2

\* The sleep before resending after a 503 (line 593).
BackoffDelay(count) == 2 ^ count

\* A faulty CacheAfterAdd: the entry is stored in a copy of the cache that is
\* thrown away.
CacheAfterAddDropped(cache, front, back, result) == cache

\* A faulty CacheAfterAdd: the entry is stored without the id Anki returned.
CacheAfterAddWithoutId(cache, front, back, result) ==
    IF result # None THEN Put(cache, front, [back |-> back, id |-> 0]) ELSE cache

\* A faulty CacheAfterAdd: the entry is stored without looking at the result.
CacheAfterAddUnchecked(cache, front, back, result) ==
    Put(cache, front, [back |-> back, id |-> result])

\* The cache after addNote returned result (lines 405-411): None leaves it alone.
CacheAfterAdd(cache, front, back, result) ==
    IF result # None THEN Put(cache, front, [back |-> back, id |-> result[1]]) ELSE cache

\* A faulty CacheAfterOverwrite: the entry is replaced by a fresh one without the id.
CacheAfterOverwriteFresh(cache, front, back) == Put(cache, front, [back |-> back, id |-> 0])

\* The cache after the overwrite branch (line 380).
CacheAfterOverwrite(cache, front, back) ==
    [cache EXCEPT ![front] = [@ EXCEPT !.back = back]]

Request(action, id, front, back, ok) ==
    [action |-> action, id |-> id, front |-> front, back |-> back, ok |-> ok]

\* The for loop of main moves on with r more notes counted (line 642); after the
\* last proposal lines 649-653 report the count and reset it.
FinishProposal(r) ==
    LET count == notes_saved_count + r
        j == NextProposal(proposed_notes, idx)
    IN /\ reasked' = FALSE
       /\ IF j # 0
          THEN /\ pc' = "save_prompt"
               /\ idx' = j
               /\ notes_saved_count' = count
               /\ shown' = Append(shown, strip(proposed_notes[j]))
               /\ UNCHANGED <<saved_count, proposed_notes, response_text>>
          ELSE /\ pc' = "prompt"
               /\ idx' = 0
               /\ notes_saved_count' = 0
               /\ saved_count' = IF count > 0 THEN count ELSE saved_count
               /\ proposed_notes' = <<>>
               /\ response_text' = <<>>
               /\ shown' = <<>>

\* What is kept of a save_note call once main has gone on.
NoCall ==
    /\ cache_before' = <<>>
    /\ anki_log' = <<>>
    /\ decisions' = 0
    /\ outcome' = "none"
    /\ save_result' = 0

\* What is kept of a question's requests once its response is under review.
NoRequest ==
    /\ calls' = 0
    /\ slept' = <<>>
    /\ signals' = <<>>

Init ==
    /\ pc = "load"
    /\ anki_notes_cache = <<>>
    /\ next_id = 1
    /\ added = <<>>
    /\ current_retry_count = 0
    /\ response_text = <<>>
    /\ proposed_notes = <<>>
    /\ idx = 0
    /\ notes_saved_count = 0
    /\ saved_count = 0
    /\ calls = 0
    /\ slept = <<>>
    /\ signals = <<>>
    /\ reasked = FALSE
    /\ last_event = "start"
    /\ cache_before = <<>>
    /\ anki_log = <<>>
    /\ decisions = 0
    /\ outcome = "none"
    /\ save_result = 0
    /\ note_content = <<>>
    /\ parsed = None
    /\ converted = None
    /\ shown = <<>>
    /\ yomitan_notes = <<>>
    /\ batch_start = 0
    /\ batch_calls = <<>>
    /\ feedback_items = <<>>
    /\ feedback_idx = 0
    /\ tag_log = <<>>

\* main, line 539: load_anki_cache. findNotes or notesInfo may fail (anki_invoke
\* then returns None) and leave the cache empty.
LoadCache ==
    /\ pc = "load"
    /\ \E deck \in StoredDecks, ok \in BOOLEAN :
        /\ anki_notes_cache' = IF ok THEN LoadNotes(<<>>, deck) ELSE <<>>
        /\ next_id' = Len(deck) + 1
    /\ added' = <<>>
    /\ pc' = "prompt"
    /\ last_event' = "loaded"
    /\ UNCHANGED <<retryVars, loopVars, callVars, reasked, parserVars, shown, batchVars>>

\* Lines 551-553: KeyboardInterrupt at the question prompt: continue.
PromptInterrupt ==
    /\ pc = "prompt"
    /\ last_event' = "KeyboardInterrupt"
    /\ UNCHANGED <<pc, ankiVars, retryVars, loopVars, callVars, reasked, parserVars, shown, batchVars>>

\* Lines 554-555: EOFError at the question prompt: break.
PromptEOF ==
    /\ pc = "prompt"
    /\ pc' = "exited"
    /\ last_event' = "EOFError"
    /\ UNCHANGED <<ankiVars, retryVars, loopVars, callVars, reasked, parserVars, shown, batchVars>>

\* Lines 557-560: quit or exit, in any case: break.
Quit ==
    /\ pc = "prompt"
    /\ \E user_question \in Questions : IsQuit(user_question)
    /\ pc' = "exited"
    /\ last_event' = "quit"
    /\ UNCHANGED <<ankiVars, retryVars, loopVars, callVars, reasked, parserVars, shown, batchVars>>

\* Line 566: any other input is a question; its retry count starts at 0.
Ask ==
    /\ pc = "prompt"
    /\ \E user_question \in Questions :
           ~IsQuit(user_question) /\ ~IsCheckYomitan(user_question)
    /\ pc' = "generate"
    /\ current_retry_count' = 0
    /\ NoRequest
    /\ saved_count' = 0
    /\ last_event' = "question"
    /\ UNCHANGED <<ankiVars, response_text, proposed_notes, idx, notes_saved_count,
                   callVars, reasked, parserVars, shown, batchVars>>

\* Lines 569-577 and 604: the service returned a text; the retry loop is left.
ServiceText ==
    /\ pc = "generate"
    /\ \E text \in Responses : response_text' = text
    /\ calls' = calls + 1
    /\ signals' = Append(signals, "text")
    /\ pc' = "responded"
    /\ last_event' = "text"
    /\ UNCHANGED <<ankiVars, current_retry_count, slept, proposed_notes, idx,
                   notes_saved_count, saved_count, callVars, reasked, parserVars, shown, batchVars>>

\* A faulty ServiceEmpty: the empty-response branch does not count its attempt.
ServiceEmptyUncounted ==
    /\ pc = "generate"
    /\ calls' = calls + 1
    /\ signals' = Append(signals, "empty")
    /\ current_retry_count' = current_retry_count
    /\ IF RetryAllowed(current_retry_count)
       THEN /\ slept' = Append(slept, EmptyDelay(current_retry_count))
            /\ pc' = "generate"
       ELSE /\ slept' = slept
            /\ pc' = "error"
    /\ last_event' = "empty"
    /\ UNCHANGED <<ankiVars, loopVars, callVars, reasked, parserVars, shown, batchVars>>

\* Lines 578-586, then 587-603: response.text is empty. Once the budget is used the
\* Exception raised at line 586 has no code, is re-raised at line 603 and reaches
\* the handler of line 655, which ends main.
ServiceEmpty ==
    /\ pc = "generate"
    /\ calls' = calls + 1
    /\ signals' = Append(signals, "empty")
    /\ current_retry_count' = current_retry_count + 1
    /\ IF RetryAllowed(current_retry_count + 1)
       THEN /\ slept' = Append(slept, EmptyDelay(current_retry_count + 1))
            /\ pc' = "generate"
       ELSE /\ slept' = slept
            /\ pc' = "error"
    /\ last_event' = "empty"
    /\ UNCHANGED <<ankiVars, loopVars, callVars, reasked, parserVars, shown, batchVars>>

\* Lines 587-601: generate_content raised an error whose code is 503.
ServiceUnavailable ==
    /\ pc = "generate"
    /\ calls' = calls + 1
    /\ signals' = Append(signals, "503")
    /\ current_retry_count' = current_retry_count + 1
    /\ IF RetryAllowed(current_retry_count + 1)
       THEN /\ slept' = Append(slept, BackoffDelay(current_retry_count + 1))
            /\ pc' = "generate"
       ELSE /\ slept' = slept
            /\ pc' = "error"
    /\ last_event' = "503"
    /\ UNCHANGED <<ankiVars, loopVars, callVars, reasked, parserVars, shown, batchVars>>

\* A faulty ServiceError: every error is retried as a 503 is.
ServiceErrorRetried ==
    /\ pc = "generate"
    /\ calls' = calls + 1
    /\ signals' = Append(signals, "error")
    /\ current_retry_count' = current_retry_count + 1
    /\ IF RetryAllowed(current_retry_count + 1)
       THEN /\ slept' = Append(slept, BackoffDelay(current_retry_count + 1))
            /\ pc' = "generate"
       ELSE /\ slept' = slept
            /\ pc' = "error"
    /\ last_event' = "error"
    /\ UNCHANGED <<ankiVars, loopVars, callVars, reasked, parserVars, shown, batchVars>>

\* Lines 602-603: any other error is re-raised at once.
ServiceError ==
    /\ pc = "generate"
    /\ calls' = calls + 1
    /\ signals' = Append(signals, "error")
    /\ pc' = "error"
    /\ last_event' = "error"
    /\ UNCHANGED <<ankiVars, current_retry_count, slept, loopVars, callVars, reasked,
                   parserVars, shown, batchVars>>

\* Lines 606-638: without the tag the text is printed and the next question
\* awaited; else it is split on the tag and the for loop runs to its first prompt.
Review ==
    /\ pc = "responded"
    /\ LET notes == Tail(split(response_text, Tag))
           j == NextProposal(notes, 0)
       IN IF ~Contains(response_text, Tag) \/ j = 0
          THEN /\ pc' = "prompt"
               /\ proposed_notes' = <<>>
               /\ idx' = 0
               /\ response_text' = <<>>
               /\ shown' = <<>>
          ELSE /\ pc' = "save_prompt"
               /\ proposed_notes' = notes
               /\ idx' = j
               /\ response_text' = response_text
               /\ shown' = <<strip(notes[j])>>
    /\ notes_saved_count' = 0
    /\ NoRequest
    /\ reasked' = FALSE
    /\ last_event' = "review"
    /\ UNCHANGED <<ankiVars, current_retry_count, saved_count, callVars, parserVars,
                   batchVars>>

\* Lines 638-642 with save_note lines 346-351: the user accepts the proposal, the
\* block yields no front, save_note returns 0.
SaveSkipped ==
    /\ pc = "save_prompt"
    /\ \E typed \in Answers : Accepts(typed)
    /\ ~Truthy(_parse_note_for_anki(CurrentNote).front)
    /\ cache_before' = anki_notes_cache
    /\ anki_log' = <<>>
    /\ decisions' = 0
    /\ outcome' = "Skipped"
    /\ save_result' = 0
    /\ pc' = "returned"
    /\ last_event' = "y"
    /\ UNCHANGED <<ankiVars, retryVars, loopVars, reasked, parserVars, shown, batchVars>>

\* Lines 638-642 with save_note lines 346-372: the front is in the cache; both
\* notes are shown and save_note asks whether to keep or overwrite.
SaveDuplicate ==
    /\ pc = "save_prompt"
    /\ \E typed \in Answers : Accepts(typed)
    /\ LET note == _parse_note_for_anki(CurrentNote)
       IN Truthy(note.front) /\ InCache(note.front[1], anki_notes_cache)
    /\ cache_before' = anki_notes_cache
    /\ anki_log' = <<>>
    /\ decisions' = 0
    /\ outcome' = "none"
    /\ save_result' = 0
    /\ pc' = "dup_prompt"
    /\ reasked' = FALSE
    /\ last_event' = "y"
    /\ UNCHANGED <<ankiVars, retryVars, loopVars, parserVars, shown, batchVars>>

\* Lines 638-642 with save_note lines 346-354 and 392-415: the front is new and
\* addNote is sent. anki_invoke returns the new id, or None when the request failed.
SaveNew ==
    /\ pc = "save_prompt"
    /\ \E typed \in Answers : Accepts(typed)
    /\ LET note == _parse_note_for_anki(CurrentNote)
       IN /\ Truthy(note.front)
          /\ ~InCache(note.front[1], anki_notes_cache)
          /\ \E ok \in BOOLEAN :
              LET result == IF ok THEN Some(next_id) ELSE None
              IN /\ anki_notes_cache' =
                        CacheAfterAdd(anki_notes_cache, note.front[1], note.back[1], result)
                 /\ next_id' = IF ok THEN next_id + 1 ELSE next_id
                 /\ added' = IF ok
                             THEN Append(added, [front |-> note.front[1], id |-> next_id])
                             ELSE added
                 /\ anki_log' =
                        <<Request("addNote", None, note.front[1], note.back[1], ok)>>
                 /\ outcome' = IF result # None THEN "Inserted" ELSE "Failed"
                 /\ save_result' = IF result # None THEN 1 ELSE 0
    /\ cache_before' = anki_notes_cache
    /\ decisions' = 0
    /\ pc' = "returned"
    /\ last_event' = "y"
    /\ UNCHANGED <<retryVars, loopVars, reasked, parserVars, shown, batchVars>>

\* A faulty SaveDeclined: the declined proposal is counted as saved.
SaveDeclinedCounted ==
    /\ pc = "save_prompt"
    /\ \E typed \in Answers : Choice(typed) = <<"n">>
    /\ FinishProposal(1)
    /\ last_event' = "n"
    /\ UNCHANGED <<ankiVars, retryVars, callVars, parserVars, batchVars>>

\* Lines 643-644: n: the proposal is dropped, save_note is not called.
SaveDeclined ==
    /\ pc = "save_prompt"
    /\ \E typed \in Answers : Choice(typed) = <<"n">>
    /\ FinishProposal(0)
    /\ last_event' = "n"
    /\ UNCHANGED <<ankiVars, retryVars, callVars, parserVars, batchVars>>

\* Lines 645-646: any other answer: the prompt is shown again.
SaveReask ==
    /\ pc = "save_prompt"
    /\ \E typed \in Answers : ~Accepts(typed) /\ Choice(typed) # <<"n">>
    /\ reasked' = TRUE
    /\ last_event' = "invalid"
    /\ UNCHANGED <<pc, ankiVars, retryVars, loopVars, callVars, parserVars, shown, batchVars>>

\* Line 638 or 372: KeyboardInterrupt in input(). No handler of main catches it
\* (line 655 catches Exception only): it leaves main.
InputInterrupt ==
    /\ pc \in {"save_prompt", "dup_prompt"}
    /\ pc' = "interrupted"
    /\ last_event' = "KeyboardInterrupt"
    /\ UNCHANGED <<ankiVars, retryVars, loopVars, callVars, reasked, parserVars, shown, batchVars>>

\* Line 638 or 372: EOFError in input() reaches the handler of line 655.
InputEOF ==
    /\ pc \in {"save_prompt", "dup_prompt"}
    /\ pc' = "error"
    /\ last_event' = "EOFError"
    /\ UNCHANGED <<ankiVars, retryVars, loopVars, callVars, reasked, parserVars, shown, batchVars>>

\* save_note lines 373-381: o: updateNoteFields is sent for the cached id; whatever
\* became of the request (anki_invoke returns None either way and never raises),
\* the cache entry takes the new back and save_note returns 1.
Overwrite ==
    /\ pc = "dup_prompt"
    /\ \E typed \in Answers : Choice(typed) = <<"o">>
    /\ LET note == _parse_note_for_anki(CurrentNote)
           note_id == anki_notes_cache[note.front[1]].id
       IN /\ \E ok \in BOOLEAN :
                anki_log' = Append(anki_log,
                    Request("updateNoteFields", Some(note_id), note.front[1], note.back[1], ok))
          /\ anki_notes_cache' =
                CacheAfterOverwrite(anki_notes_cache, note.front[1], note.back[1])
    /\ decisions' = decisions + 1
    /\ outcome' = "Updated"
    /\ save_result' = 1
    /\ pc' = "returned"
    /\ last_event' = "o"
    /\ UNCHANGED <<next_id, added, retryVars, loopVars, cache_before, reasked, parserVars,
                   shown, batchVars>>

\* A faulty Keep: the branch does not return and runs on into the new note logic.
KeepThenAdd ==
    /\ pc = "dup_prompt"
    /\ \E typed \in Answers : Choice(typed) = <<"k">>
    /\ LET note == _parse_note_for_anki(CurrentNote)
       IN /\ anki_notes_cache' =
                 CacheAfterAdd(anki_notes_cache, note.front[1], note.back[1], Some(next_id))
          /\ anki_log' = Append(anki_log,
                 Request("addNote", None, note.front[1], note.back[1], TRUE))
    /\ next_id' = next_id + 1
    /\ added' = Append(added, [front |-> _parse_note_for_anki(CurrentNote).front[1], id |-> next_id])
    /\ decisions' = decisions + 1
    /\ outcome' = "Inserted"
    /\ save_result' = 1
    /\ pc' = "returned"
    /\ last_event' = "k"
    /\ UNCHANGED <<retryVars, loopVars, cache_before, reasked, parserVars, shown, batchVars>>

\* save_note lines 385-388: k: save_note returns 0.
Keep ==
    /\ pc = "dup_prompt"
    /\ \E typed \in Answers : Choice(typed) = <<"k">>
    /\ decisions' = decisions + 1
    /\ outcome' = "Kept"
    /\ save_result' = 0
    /\ pc' = "returned"
    /\ last_event' = "k"
    /\ UNCHANGED <<ankiVars, retryVars, loopVars, cache_before, anki_log, reasked,
                   parserVars, shown, batchVars>>

\* save_note lines 389-390: any other answer: the prompt is shown again.
DuplicateReask ==
    /\ pc = "dup_prompt"
    /\ \E typed \in Answers : Choice(typed) \notin {<<"k">>, <<"o">>}
    /\ reasked' = TRUE
    /\ last_event' = "invalid"
    /\ UNCHANGED <<pc, ankiVars, retryVars, loopVars, callVars, parserVars, shown, batchVars>>

\* Line 642 and on: the value save_note returned is added to the count and the
\* for loop moves on.
Continue ==
    /\ pc = "returned"
    /\ FinishProposal(save_result)
    /\ NoCall
    /\ last_event' = "continue"
    /\ UNCHANGED <<ankiVars, retryVars, parserVars, batchVars>>

\* ------------------------------------------------------------------------
\* The session: check_yomitan_cards
\* ------------------------------------------------------------------------

\* The outer for loop goes to the batch after offset i, or is left (line 447).
NextBatch(i) ==
    /\ response_text' = <<>>
    /\ feedback_items' = <<>>
    /\ feedback_idx' = 0
    /\ IF i + BATCH_SIZE < Len(yomitan_notes)
       THEN /\ pc' = "batch_generate"
            /\ batch_start' = i + BATCH_SIZE
            /\ shown' = <<>>
       ELSE /\ pc' = "checked"
            /\ batch_start' = i
            /\ shown' = <<>>

\* Lines 508-522: after the last feedback item removeTags is sent for the batch;
\* then the user is asked about the next batch, if there is one.
EndOfBatch ==
    /\ \E ok \in BOOLEAN :
           tag_log' = Append(tag_log,
               [notes |-> BatchIds(yomitan_notes, batch_start), ok |-> ok])
    /\ feedback_idx' = 0
    /\ pc' = IF batch_start + BATCH_SIZE < Len(yomitan_notes)
             THEN "batch_prompt" ELSE "checked"

\* Lines 494-506: the inner for loop runs on from item j of items: blank items are
\* skipped, the next one is shown, and unless it is the last item of the list the
\* user is asked to press Enter.
ShowFeedback(items, j) ==
    LET rest == {k \in j..Len(items) : strip(items[k]) # <<>>}
    IN IF rest = {}
       THEN /\ shown' = shown
            /\ EndOfBatch
       ELSE LET k == Min(rest)
            IN /\ shown' = Append(shown, strip(items[k]))
               /\ IF k < Len(items)
                  THEN /\ pc' = "feedback_prompt"
                       /\ feedback_idx' = k
                       /\ tag_log' = tag_log
                  ELSE EndOfBatch

\* Lines 562-564 with 437-447: "check yomitan" in any case. Without tagged notes
\* check_yomitan_cards returns at once.
CheckYomitan ==
    /\ pc = "prompt"
    /\ \E user_question \in Questions : IsCheckYomitan(user_question)
    /\ \E notes \in YomitanNotes :
        /\ yomitan_notes' = notes
        /\ pc' = IF notes = <<>> THEN "checked" ELSE "batch_generate"
    /\ batch_start' = 0
    /\ batch_calls' = <<>>
    /\ tag_log' = <<>>
    /\ last_event' = "check yomitan"
    /\ UNCHANGED <<ankiVars, retryVars, loopVars, callVars, reasked, parserVars, shown,
                   feedback_items, feedback_idx>>

\* Lines 481-506: the service returned a text for the batch: it is split on the
\* tag and the items are shown up to the first prompt.
BatchText ==
    /\ pc = "batch_generate"
    /\ batch_calls' = Append(batch_calls, batch_start)
    /\ \E text \in BatchResponses :
        /\ response_text' = text
        /\ feedback_items' = FeedbackItems(text)
        /\ ShowFeedback(FeedbackItems(text), 1)
    /\ last_event' = "batch_text"
    /\ UNCHANGED <<ankiVars, retryVars, proposed_notes, idx, notes_saved_count, saved_count,
                   callVars, reasked, parserVars, yomitan_notes, batch_start>>

\* A faulty BatchEmpty: removeTags is sent for the batch although the response
\* was empty.
BatchEmptyUntagged ==
    /\ pc = "batch_generate"
    /\ batch_calls' = Append(batch_calls, batch_start)
    /\ tag_log' = Append(tag_log,
           [notes |-> BatchIds(yomitan_notes, batch_start), ok |-> TRUE])
    /\ NextBatch(batch_start)
    /\ last_event' = "batch_empty"
    /\ UNCHANGED <<ankiVars, retryVars, proposed_notes, idx, notes_saved_count, saved_count,
                   callVars, reasked, parserVars, yomitan_notes>>

\* Lines 523-524: response.text is empty: a message is printed and the outer loop
\* goes on with the next batch.
BatchEmpty ==
    /\ pc = "batch_generate"
    /\ batch_calls' = Append(batch_calls, batch_start)
    /\ NextBatch(batch_start)
    /\ last_event' = "batch_empty"
    /\ UNCHANGED <<ankiVars, retryVars, proposed_notes, idx, notes_saved_count, saved_count,
                   callVars, reasked, parserVars, yomitan_notes, tag_log>>

\* Lines 525-526: generate_content raised (a 503 or any other error): the error is
\* printed and the outer loop goes on with the next batch.
BatchError ==
    /\ pc = "batch_generate"
    /\ batch_calls' = Append(batch_calls, batch_start)
    /\ NextBatch(batch_start)
    /\ \E signal \in {"batch_503", "batch_error"} : last_event' = signal
    /\ UNCHANGED <<ankiVars, retryVars, proposed_notes, idx, notes_saved_count, saved_count,
                   callVars, reasked, parserVars, yomitan_notes, tag_log>>

\* Line 504: whatever the user types, the inner loop goes on with the next item.
FeedbackNext ==
    /\ pc = "feedback_prompt"
    /\ \E typed \in EnterAnswers : TRUE
    /\ ShowFeedback(feedback_items, feedback_idx + 1)
    /\ last_event' = "enter"
    /\ UNCHANGED <<ankiVars, retryVars, loopVars, callVars, reasked, parserVars,
                   yomitan_notes, batch_start, batch_calls, feedback_items>>

\* Lines 519-522: q or quit leaves the outer loop.
BatchQuit ==
    /\ pc = "batch_prompt"
    /\ \E typed \in EnterAnswers : Choice(typed) \in {<<"q">>, <<"q", "u", "i", "t">>}
    /\ pc' = "checked"
    /\ response_text' = <<>>
    /\ feedback_items' = <<>>
    /\ last_event' = "q"
    /\ UNCHANGED <<ankiVars, retryVars, proposed_notes, idx, notes_saved_count, saved_count,
                   callVars, reasked, parserVars, shown, yomitan_notes, batch_start,
                   batch_calls, feedback_idx, tag_log>>

\* Lines 519-520: any other answer: the outer loop goes on with the next batch.
BatchNext ==
    /\ pc = "batch_prompt"
    /\ \E typed \in EnterAnswers : Choice(typed) \notin {<<"q">>, <<"q", "u", "i", "t">>}
    /\ NextBatch(batch_start)
    /\ last_event' = "enter"
    /\ UNCHANGED <<ankiVars, retryVars, proposed_notes, idx, notes_saved_count, saved_count,
                   callVars, reasked, parserVars, yomitan_notes, batch_calls, tag_log>>

\* Line 504 or 519: EOFError in input() is caught by line 525: the error is printed
\* and the outer loop goes on with the next batch; at line 504 the tags of the
\* batch are not removed.
BatchInputEOF ==
    /\ pc \in {"feedback_prompt", "batch_prompt"}
    /\ NextBatch(batch_start)
    /\ last_event' = "EOFError"
    /\ UNCHANGED <<ankiVars, retryVars, proposed_notes, idx, notes_saved_count, saved_count,
                   callVars, reasked, parserVars, yomitan_notes, batch_calls, tag_log>>

\* Line 504 or 519: KeyboardInterrupt in input() is caught nowhere: it leaves main.
BatchInputInterrupt ==
    /\ pc \in {"feedback_prompt", "batch_prompt"}
    /\ pc' = "interrupted"
    /\ last_event' = "KeyboardInterrupt"
    /\ UNCHANGED <<ankiVars, retryVars, loopVars, callVars, reasked, parserVars, shown,
                   batchVars>>

\* Line 564: check_yomitan_cards has returned: continue with the next question.
CheckDone ==
    /\ pc = "checked"
    /\ pc' = "prompt"
    /\ shown' = <<>>
    /\ yomitan_notes' = <<>>
    /\ batch_start' = 0
    /\ batch_calls' = <<>>
    /\ feedback_items' = <<>>
    /\ feedback_idx' = 0
    /\ tag_log' = <<>>
    /\ response_text' = <<>>
    /\ last_event' = "checked"
    /\ UNCHANGED <<ankiVars, retryVars, proposed_notes, idx, notes_saved_count, saved_count,
                   callVars, reasked, parserVars>>

Next ==
    \/ LoadCache
    \/ PromptInterrupt
    \/ PromptEOF
    \/ Quit
    \/ Ask
    \/ ServiceText
    \/ ServiceEmpty
    \/ ServiceUnavailable
    \/ ServiceError
    \/ Review
    \/ SaveSkipped
    \/ SaveDuplicate
    \/ SaveNew
    \/ SaveDeclined
    \/ SaveReask
    \/ InputInterrupt
    \/ InputEOF
    \/ Overwrite
    \/ Keep
    \/ DuplicateReask
    \/ Continue
    \/ CheckYomitan
    \/ BatchText
    \/ BatchEmpty
    \/ BatchError
    \/ FeedbackNext
    \/ BatchQuit
    \/ BatchNext
    \/ BatchInputEOF
    \/ BatchInputInterrupt
    \/ CheckDone

Spec == Init /\ [][Next]_vars

\* ------------------------------------------------------------------------
\* Parser runs: _parse_note_for_anki on one block
\* ------------------------------------------------------------------------

\* The most lines a block handed to the parser has.
MaxLines == 3

\* "- **a** x"
LineVocab == <<"-", " ", "*", "*", "a", "*", "*", " ", "x">>
\* "* ** a **": the bold span is padded
LinePadded == <<"*", " ", "*", "*", " ", "a", " ", "*", "*">>
\* "- ** **": the bold span holds only a space
LineSpace == <<"-", " ", "*", "*", " ", "*", "*">>
\* "- *a* x": a list item without a bold span
LineItalic == <<"-", " ", "*", "a", "*", " ", "x">>
\* "### Grammar: x"
LineGrammar == <<"#", "#", "#", " ", "G", "r", "a", "m", "m", "a", "r", ":", " ", "x">>
\* "####GRAMMAR:"
LineGrammar4 == <<"#", "#", "#", "#", "G", "R", "A", "M", "M", "A", "R", ":">>
\* "## Grammar: x"
LineGrammar2 == <<"#", "#", " ", "G", "r", "a", "m", "m", "a", "r", ":", " ", "x">>
\* "Grammar: x"
LineGrammar0 == <<"G", "r", "a", "m", "m", "a", "r", ":", " ", "x">>
\* "### grammar": no colon
LineNoColon == <<"#", "#", "#", " ", "g", "r", "a", "m", "m", "a", "r">>
\* "- **a** ###grammar:": the vocabulary pattern and a grammar header in one line
LineBoth == <<"-", " ", "*", "*", "a", "*", "*", " ", "#", "#", "#",
              "g", "r", "a", "m", "m", "a", "r", ":">>
\* "x"
LinePlain == <<"x">>

NoteLines ==
    {LineVocab, LinePadded, LineSpace, LineItalic, LineGrammar, LineGrammar4,
     LineGrammar2, LineGrammar0, LineNoColon, LineBoth, LinePlain, <<>>}

\* "* s *H*": a list item with the marker `*` and an emphasis
LineStarEmphasis == <<"*", " ", "s", " ", "*", "H", "*">>
\* "- s *H*": the same with the marker `-`
LineDashEmphasis == <<"-", " ", "s", " ", "*", "H", "*">>
\* " * x": an indented list item
LineIndented == <<" ", "*", " ", "x">>
\* "*x* y": an emphasis at the start of the line
LineEmphasis == <<"*", "x", "*", " ", "y">>

MarkupLines == {LineStarEmphasis, LineDashEmphasis, LineIndented, LineEmphasis, LineVocab}

\* The texts of up to MaxLines lines handed to the converter alone.
MarkupTexts ==
    {join(NL, ls) : ls \in UNION {[1..n -> MarkupLines] : n \in 1..MaxLines}}

\* The blocks of up to MaxLines lines.
NoteBlocks ==
    {join(NL, ls) : ls \in UNION {[1..n -> NoteLines] : n \in 1..MaxLines}}

ParseInit ==
    /\ pc = "parser"
    /\ anki_notes_cache = <<>>
    /\ next_id = 1
    /\ added = <<>>
    /\ current_retry_count = 0
    /\ response_text = <<>>
    /\ proposed_notes = <<>>
    /\ idx = 0
    /\ notes_saved_count = 0
    /\ saved_count = 0
    /\ calls = 0
    /\ slept = <<>>
    /\ signals = <<>>
    /\ reasked = FALSE
    /\ last_event = "start"
    /\ cache_before = <<>>
    /\ anki_log = <<>>
    /\ decisions = 0
    /\ outcome = "none"
    /\ save_result = 0
    /\ note_content \in NoteBlocks \cup MarkupTexts
    /\ parsed = None
    /\ converted = None
    /\ shown = <<>>
    /\ yomitan_notes = <<>>
    /\ batch_start = 0
    /\ batch_calls = <<>>
    /\ feedback_items = <<>>
    /\ feedback_idx = 0
    /\ tag_log = <<>>

\* One call of _parse_note_for_anki.
ParseNote ==
    /\ pc = "parser"
    /\ parsed = None
    /\ converted = None
    /\ parsed' = Some(_parse_note_for_anki(note_content))
    /\ UNCHANGED <<pc, ankiVars, retryVars, loopVars, callVars, reasked, last_event,
                   note_content, converted, shown, batchVars>>

\* One call of _markdown_to_html_for_anki.
ConvertNote ==
    /\ pc = "parser"
    /\ parsed = None
    /\ converted = None
    /\ converted' = Some(_markdown_to_html_for_anki(note_content))
    /\ UNCHANGED <<pc, ankiVars, retryVars, loopVars, callVars, reasked, last_event,
                   note_content, parsed, shown, batchVars>>

ParseNext == ParseNote \/ ConvertNote

SpecParse == ParseInit /\ [][ParseNext]_vars

\* ------------------------------------------------------------------------
\* Properties
\* ------------------------------------------------------------------------

\* Every answer the service gave to the current question so far is sig.
AllSignals(sig) == \A n \in DOMAIN signals : signals[n] = sig

\* The attempts of the current question that failed with a cause that is retried.
RetriedFailures == Cardinality({n \in DOMAIN signals : signals[n] \in {"empty", "503"}})

\* main is in the retry loop of lines 566-603, or has just left it.
AtRetryLoop ==
    \/ pc \in {"generate", "responded"}
    \/ pc = "error" /\ last_event \in {"empty", "503", "error"}

\* The front the current save_note call parsed from its note.
CallFront == _parse_note_for_anki(CurrentNote).front

\* The current save_note call found its front in the cache.
CallFoundFront ==
    /\ pc \in {"dup_prompt", "returned"}
    /\ Truthy(CallFront)
    /\ CallFront[1] \in DOMAIN cache_before

CacheSize(cache) == Cardinality(DOMAIN cache)

\* C1: when the service answers every attempt of a question with a 503 and
\* RETRY_COUNT is 3, the retry loop raises after exactly 3 attempts, and the delays
\* it slept before raising are 2, 4 and 8.
C1_BackoffTwoFourEight ==
    (pc = "error" /\ last_event = "503" /\ AllSignals("503"))
        => (calls = 3 /\ slept = <<2, 4, 8>>)

\* What the loop does in the case of C1: 3 attempts, and 2 and 4 slept between them.
BackoffAsCoded ==
    (pc = "error" /\ last_event = "503" /\ AllSignals("503"))
        => (calls = RETRY_COUNT /\ slept = <<2, 4>>)

\* C2: when the retry budget of a question is used up (by empty responses or by
\* 503s), only that exchange ends: the session loop is still running and asks for
\* the next question.
C2_ExhaustionKeepsSession ==
    (last_event \in {"empty", "503"} /\ current_retry_count >= RETRY_COUNT)
        => pc = "prompt"

\* C3: when the AnkiConnect request of a save (addNote, or updateNoteFields after
\* an overwrite) fails, the cache is as the call found it, the note is not counted
\* (save_note returns 0) and the session loop goes on.
C3_FailedSaveHasNoEffect ==
    (pc = "returned" /\ anki_log # <<>> /\ ~anki_log[Len(anki_log)].ok)
        => (anki_notes_cache = cache_before /\ save_result = 0)

\* C4: when save_note finds its front in the cache it takes exactly one keep or
\* overwrite decision before it returns, whatever invalid answers came first, sends
\* no addNote and leaves the set of cached fronts as it was.
C4_DuplicateAsksOnce ==
    CallFoundFront =>
        /\ \A n \in DOMAIN anki_log : anki_log[n].action # "addNote"
        /\ DOMAIN anki_notes_cache = DOMAIN cache_before
        /\ decisions = IF pc = "returned" THEN 1 ELSE 0
        /\ pc = "returned" => outcome \in {"Kept", "Updated"}

C4_Witness ==
    /\ CallFoundFront
    /\ pc = "returned"
    /\ reasked
    /\ decisions = 1

\* C5 as stated: every call of save_note that returns ends in one of Inserted,
\* Updated, Kept and Skipped, and the cache grows by one entry for Inserted and by
\* none for the others.
C5_FourOutcomes ==
    pc = "returned" =>
        /\ outcome \in {"Inserted", "Updated", "Kept", "Skipped"}
        /\ CacheSize(anki_notes_cache) - CacheSize(cache_before)
               = IF outcome = "Inserted" THEN 1 ELSE 0

\* C5 as amended: every call of save_note that returns ends in one of Inserted,
\* Updated, Kept, Skipped and Failed (addNote was refused), and the cache grows by
\* one entry for Inserted and by none for the others.
C5_FiveOutcomes ==
    pc = "returned" =>
        /\ outcome \in {"Inserted", "Updated", "Kept", "Skipped", "Failed"}
        /\ CacheSize(anki_notes_cache) - CacheSize(cache_before)
               = IF outcome = "Inserted" THEN 1 ELSE 0

C5_Witness ==
    /\ pc = "returned"
    /\ outcome = "Failed"
    /\ anki_log # <<>>
    /\ anki_log[Len(anki_log)].action = "addNote"
    /\ CacheSize(cache_before) = 1
    /\ CacheSize(anki_notes_cache) = 1

\* C6: a KeyboardInterrupt at any prompt of the session (the question, "Save this
\* note?", keep or overwrite) leaves the session at a prompt: it is asked again and
\* the session is not aborted.
C6_InterruptAsksAgain ==
    last_event = "KeyboardInterrupt" => pc \in {"prompt", "save_prompt", "dup_prompt"}

\* C7: when the service answers a question with k < RETRY_COUNT empty responses and
\* then a text, the retry loop goes on sending through the empty ones and is left
\* with that text after k + 1 calls and k sleeps of 2, and nothing is raised.
C7_EmptyThenText ==
    /\ (last_event = "empty" /\ AllSignals("empty") /\ Len(signals) < RETRY_COUNT)
           => pc = "generate"
    /\ (pc = "responded" /\ \A n \in 1..(Len(signals) - 1) : signals[n] = "empty")
           => /\ calls = Len(signals)
              /\ current_retry_count = Len(signals) - 1
              /\ slept = [n \in 1..(Len(signals) - 1) |-> 2]
              /\ response_text \in Responses

C7_Witness ==
    /\ pc = "responded"
    /\ signals = <<"empty", "empty", "text">>
    /\ slept = <<2, 2>>

\* C8: the retry budget is one counter per question for both causes: whatever the
\* order of empty responses and 503s, the counter is the number of failed attempts
\* of the question, a call is only made while it is below RETRY_COUNT, so that the
\* service is called at most RETRY_COUNT times, and it is 0 at the first call of
\* every question.
C8_OneBudgetPerQuestion ==
    /\ calls <= RETRY_COUNT
    /\ AtRetryLoop => current_retry_count = RetriedFailures
    /\ pc = "generate" => current_retry_count < RETRY_COUNT
    /\ (pc = "generate" /\ calls = 0) => current_retry_count = 0

C8_Witness ==
    /\ pc = "error"
    /\ signals = <<"empty", "503", "empty">>
    /\ calls = RETRY_COUNT

\* The lines of a block as the parser sees them.
LinesOf(block) == split(strip(block), NL)

\* The heading C9 speaks of: any number of `#` (none too), optional whitespace,
\* then `Grammar:` in any case.
RECURSIVE StripHashes(_)
StripHashes(line) == IF line # <<>> /\ Head(line) = "#" THEN StripHashes(Tail(line)) ELSE line

IsGrammarHeading(line) == startswith(lower(lstrip(StripHashes(line))), GrammarColon)

HasGrammarHeading(block) ==
    \E n \in DOMAIN LinesOf(block) : n <= 3 /\ IsGrammarHeading(LinesOf(block)[n])

\* C9: a block with a `Grammar:` heading (any number of leading `#`, none too) in
\* its first 3 lines is classified as grammar, without front and back, even when
\* its first line matches the vocabulary pattern.
C9_GrammarHeadingWins ==
    (parsed # None /\ HasGrammarHeading(note_content))
        => /\ parsed[1].reason = Some("grammar")
           /\ parsed[1].front = None
           /\ parsed[1].back = None

\* The content of the first bold span of a line that has one.
FirstBoldSpan(line) ==
    LET p == Min(Occurrences(line, BoldMark, 1))
    IN SubSeq(line, p + 2, Min(Occurrences(line, BoldMark, p + 2)) - 1)

\* C10: a block for which the parser returns a front and a back has a front that is
\* not empty and is the trimmed content of the first bold span of its first line.
C10_FrontIsBoldSpan ==
    (parsed # None /\ parsed[1].front # None)
        => /\ parsed[1].front[1] # <<>>
           /\ parsed[1].front[1] = strip(FirstBoldSpan(LinesOf(note_content)[1]))

\* The parser finds a grammar header in the block: `### grammar` on line 1, or
\* `###`, optional whitespace and `Grammar:` in one of the first 3 lines.
FoundGrammar(block) ==
    LET lines == LinesOf(block)
        first == lower(strip(lines[1]))
    IN \/ Contains(first, HashesGrammarColon)
       \/ startswith(first, HashesGrammar)
       \/ \E n \in DOMAIN lines : n <= 3 /\ GrammarHeader(lines[n])

\* The block is a vocabulary note: no grammar header, and line 1 is a list item
\* that starts with a bold span.
FoundVocabulary(block) == ~FoundGrammar(block) /\ HeaderMatch(LinesOf(block)[1]) # None

\* C11: the parser returns a front and a back, both not None, exactly for the blocks
\* it takes as vocabulary; for a block it takes as grammar (reason "grammar") or as
\* neither, front and back are both None.
C11_PairIffVocabulary ==
    parsed # None =>
        /\ FoundVocabulary(note_content)
               <=> (parsed[1].front # None /\ parsed[1].back # None)
        /\ ~FoundVocabulary(note_content)
               => (parsed[1].front = None /\ parsed[1].back = None)
        /\ parsed[1].reason = Some("grammar") <=> FoundGrammar(note_content)

C11_Witness ==
    /\ parsed # None
    /\ LinesOf(note_content) = <<LinePadded, LinePlain, LineGrammar2>>
    /\ parsed[1].front = Some(<<"a">>)
    /\ parsed[1].back # None

\* The back the current save_note call parsed from its note.
CallBack == _parse_note_for_anki(CurrentNote).back

\* C12: when the user answers o for a front that is in the cache, the one request
\* sent is updateNoteFields for the id the cache held for that front; afterwards
\* the entry of that front has the new back and the same id, every other entry and
\* the set of fronts are as before, and save_note reports the update (returns 1).
C12_OverwriteFrame ==
    (pc = "returned" /\ last_event = "o") =>
        LET front == CallFront[1]
        IN /\ front \in DOMAIN cache_before
           /\ anki_log = <<Request("updateNoteFields", Some(cache_before[front].id),
                                   front, CallBack[1], anki_log[1].ok)>>
           /\ DOMAIN anki_notes_cache = DOMAIN cache_before
           /\ anki_notes_cache[front] = [back |-> CallBack[1], id |-> cache_before[front].id]
           /\ \A f \in DOMAIN cache_before \ {front} : anki_notes_cache[f] = cache_before[f]
           /\ outcome = "Updated"
           /\ save_result = 1

C12_Witness ==
    /\ pc = "returned"
    /\ last_event = "o"
    /\ CacheSize(cache_before) = 2
    /\ anki_notes_cache # cache_before
    /\ anki_log[1].ok

\* C13: when the user answers k for a front that is in the cache, the cache keeps
\* its fronts, backs and ids, no request is sent to Anki, and save_note reports that
\* the note was kept (returns 0).
C13_KeepFrame ==
    (pc = "returned" /\ last_event = "k") =>
        /\ CallFront[1] \in DOMAIN cache_before
        /\ anki_notes_cache = cache_before
        /\ anki_log = <<>>
        /\ outcome = "Kept"
        /\ save_result = 0

C13_Witness ==
    /\ pc = "returned"
    /\ last_event = "k"
    /\ CacheSize(anki_notes_cache) = 2
    /\ CallBack[1] # anki_notes_cache[CallFront[1]].back

\* C14: when the block yields no front (None, for a grammar or unrecognised block)
\* or an empty one, save_note returns 0 at once: nothing raised, no k/o question
\* asked, the cache untouched and no request sent to Anki.
C14_SkippedFrame ==
    (pc \in {"dup_prompt", "returned"} /\ (CallFront = None \/ CallFront = Some(<<>>))) =>
        /\ pc = "returned"
        /\ outcome = "Skipped"
        /\ save_result = 0
        /\ decisions = 0
        /\ anki_log = <<>>
        /\ anki_notes_cache = cache_before

C14_Witness ==
    /\ pc = "returned"
    /\ CallFront = Some(<<>>)
    /\ outcome = "Skipped"
    /\ CacheSize(cache_before) > 0

\* C15: an error of generate_content other than a 503 ends the retry loop at once,
\* whatever the attempts used before: it is the last answer of the question, no
\* call follows it, nothing is slept for it, and it is raised out of the loop.
C15_OtherErrorsFatal ==
    (AtRetryLoop /\ \E n \in DOMAIN signals : signals[n] = "error") =>
        /\ pc = "error"
        /\ signals[Len(signals)] = "error"
        /\ \A n \in 1..(Len(signals) - 1) : signals[n] # "error"
        /\ calls = Len(signals)
        /\ Len(slept) = Len(signals) - 1
        /\ current_retry_count = Len(signals) - 1

C15_Witness ==
    /\ pc = "error"
    /\ signals = <<"503", "empty", "error">>
    /\ slept = <<2, 2>>

NonBlank(block) == block # <<>>

\* The item blocks of a text for a tag: the segments after the first occurrence of
\* the tag, trimmed, in their order, without those that are empty once trimmed.
ItemBlocks(text, tag) ==
    LET later == Tail(split(text, tag))
    IN SelectSeq([n \in DOMAIN later |-> strip(later[n])], NonBlank)

\* The segment before the first occurrence of the tag, as a block: nothing when it
\* is empty once trimmed.
PreambleBlock(text, tag) ==
    LET first == strip(split(text, tag)[1])
    IN IF first = <<>> THEN <<>> ELSE <<first>>

IsPrefix(s, t) == Len(s) <= Len(t) /\ s = SubSeq(t, 1, Len(s))

\* main is in the for loop over the proposals of a response.
AtProposal == pc \in {"save_prompt", "dup_prompt", "returned"}

\* check_yomitan_cards is showing, or has shown, the feedback of a batch.
AtFeedback == pc \in {"feedback_prompt", "batch_prompt", "checked"} /\ response_text # <<>>

\* C16 as stated: in both modes the blocks shown as items are the segments after
\* the first occurrence of the tag, trimmed, in their order, without the blank
\* ones; the segment before the first tag is never shown as an item.
C16_PreambleNeverItem ==
    /\ AtProposal =>
           /\ IsPrefix(shown, ItemBlocks(response_text, Tag))
           /\ NextProposal(proposed_notes, idx) = 0 => shown = ItemBlocks(response_text, Tag)
    /\ AtFeedback =>
           /\ IsPrefix(shown, ItemBlocks(response_text, FeedbackTag))
           /\ pc # "feedback_prompt" => shown = ItemBlocks(response_text, FeedbackTag)

\* C16 as amended: in question mode the blocks shown as items are the segments
\* after the first occurrence of the tag, trimmed, in their order, without the
\* blank ones, and the segment before the first tag is never one of them; in
\* batch-review mode the items are those same segments preceded by the segment
\* before the first tag (the whole text when the tag does not occur), trimmed,
\* unless that segment is blank.
C16_PreambleItemInBatchReview ==
    /\ AtProposal =>
           /\ shown # <<>>
           /\ CurrentNote = shown[Len(shown)]
           /\ IsPrefix(shown, ItemBlocks(response_text, Tag))
           /\ NextProposal(proposed_notes, idx) = 0 => shown = ItemBlocks(response_text, Tag)
    /\ AtFeedback =>
           LET items == PreambleBlock(response_text, FeedbackTag)
                            \o ItemBlocks(response_text, FeedbackTag)
           IN /\ shown # <<>>
              /\ IsPrefix(shown, items)
              /\ pc # "feedback_prompt" => shown = items

C16_Witness ==
    /\ pc = "batch_prompt"
    /\ shown = <<<<"o", "k">>, <<"f">>, <<"g">>>>
    /\ Len(split(response_text, FeedbackTag)) = 4

\* The fronts Anki added in this session before the current save_note call.
AddedBefore ==
    LET earlier == IF pc = "returned" /\ outcome = "Inserted"
                   THEN SubSeq(added, 1, Len(added) - 1) ELSE added
    IN {earlier[n].front : n \in DOMAIN earlier}

\* The id Anki returned when it added front.
AddedId(front) == added[CHOOSE n \in DOMAIN added : added[n].front = front].id

\* C17: a note inserted in this session is in the cache from then on, with the id
\* Anki returned; a later proposal with the same front, in the same response or a
\* later one, is taken as a duplicate: the k/o question is asked, no addNote is
\* sent for it (so no front is added twice), and an overwrite is sent for the id
\* Anki returned for the first insert.
C17_InsertedIsDuplicate ==
    /\ \A n \in DOMAIN added :
           /\ added[n].front \in DOMAIN anki_notes_cache
           /\ anki_notes_cache[added[n].front].id = added[n].id
           /\ \A m \in DOMAIN added : added[m].front = added[n].front => m = n
    /\ (pc \in {"dup_prompt", "returned"} /\ CallFront # None /\ CallFront[1] \in AddedBefore) =>
           /\ \A n \in DOMAIN anki_log :
                  /\ anki_log[n].action = "updateNoteFields"
                  /\ anki_log[n].id = Some(AddedId(CallFront[1]))
           /\ decisions = IF pc = "returned" THEN 1 ELSE 0
           /\ pc = "returned" => outcome \in {"Kept", "Updated"}

C17_Witness ==
    /\ pc = "returned"
    /\ idx = 2
    /\ outcome = "Updated"
    /\ added = <<[front |-> <<"a">>, id |-> 3]>>
    /\ anki_log[1].id = Some(3)
    /\ anki_notes_cache[<<"a">>].id = 3

\* C18: every call of the service is retried: in the question loop and in
\* check_yomitan_cards alike, after an empty response or a 503 the same request is
\* sent again as long as fewer than RETRY_COUNT attempts were made for it.
C18_EveryCallRetried ==
    /\ (last_event \in {"empty", "503"} /\ Len(signals) < RETRY_COUNT) => pc = "generate"
    /\ last_event \in {"batch_empty", "batch_503"} =>
           /\ pc = "batch_generate"
           /\ batch_start = batch_calls[Len(batch_calls)]

\* The line of the converted text for a line that is a list item, were the marker
\* taken off whatever follows it: the indentation, then the content in markup.
ItemMarkup(line) ==
    Repeat(NBSP, IF LeadingWhitespace(line) < IndentCap
                 THEN LeadingWhitespace(line) ELSE IndentCap)
        \o SubItalic(SubBold(From(lstrip(line), 2 + LeadingWhitespace(From(lstrip(line), 2)))))

\* C19: in the converted text every line that starts with a list marker (`-` or
\* `*` and whitespace, after optional whitespace) has lost the marker, whatever
\* follows it, further single-asterisk emphasis included: the marker is not in
\* the output and is not taken as the delimiter of an emphasis.
C19_ListMarkerStripped ==
    LET lines == split(note_content, NL)
        out == split(converted[1], BR)
    IN (converted # None /\ \A n \in DOMAIN lines : strip(lines[n]) # <<>>) =>
           /\ Len(out) = Len(lines)
           /\ \A n \in DOMAIN lines :
                  HasListMarker(lines[n]) => rstrip(out[n]) = rstrip(ItemMarkup(lines[n]))

\* C20: EOFError at any prompt of the session ends the session loop as the break
\* of line 555 does: main is left without the handler of line 655 and without
\* another call of the service or of Anki.
C20_EndOfInputExits ==
    last_event = "EOFError" => pc = "exited"


\* C21: in every reachable state of a session every key of anki_notes_cache is a
\* non-empty string without leading or trailing whitespace, whether load_anki_cache
\* stored it or save_note inserted it.
C21_CacheKeysStripped ==
    \A front \in DOMAIN anki_notes_cache : front # <<>> /\ strip(front) = front

\* A note whose stored Front was padded has been loaded under the stripped key, and
\* a proposal whose bold span is padded has been inserted.
C21_Witness ==
    /\ pc = "returned"
    /\ outcome = "Inserted"
    /\ CurrentNote = strip(BlockA2)
    /\ DOMAIN anki_notes_cache = {<<"a">>, <<"b">>}
    /\ anki_notes_cache[<<"b">>].back = <<"o", "l", "d">>
    /\ AddedId(<<"a">>) = anki_notes_cache[<<"a">>].id

\* C22: a key is added to anki_notes_cache during a session only in a step in which
\* addNote was sent for that front and Anki acknowledged it with an id, and the new
\* entry stores exactly that id; a step in which addNote was refused or failed
\* leaves the cache as it was, so no entry exists for the refused note.
C22_KeyAddedOnlyWhenAcknowledged ==
    [][/\ \A front \in DOMAIN anki_notes_cache' \ DOMAIN anki_notes_cache :
              \/ pc = "load"
              \/ /\ pc = "save_prompt"
                 /\ anki_log' = <<Request("addNote", None, front,
                                          anki_notes_cache'[front].back, TRUE)>>
                 /\ anki_notes_cache'[front].id = next_id
                 /\ added' = Append(added, [front |-> front, id |-> next_id])
                 /\ DOMAIN anki_notes_cache' = DOMAIN anki_notes_cache \cup {front}
       /\ (pc = "save_prompt" /\ anki_log' # <<>> /\ ~anki_log'[1].ok) =>
              /\ anki_notes_cache' = anki_notes_cache
              /\ anki_log'[1].front \notin DOMAIN anki_notes_cache'
              /\ added' = added
      ]_vars

\* addNote was acknowledged for the first proposal of a response and the cache has
\* one more key, stored with the id Anki returned.
C22_Witness ==
    /\ pc = "returned"
    /\ idx = 1
    /\ outcome = "Inserted"
    /\ anki_log = <<Request("addNote", None, CallFront[1], CallBack[1], TRUE)>>
    /\ CallFront[1] \notin DOMAIN cache_before
    /\ CacheSize(anki_notes_cache) = CacheSize(cache_before) + 1
    /\ anki_notes_cache[CallFront[1]].id = added[Len(added)].id

\* C23: in check_yomitan_cards removeTags is sent for a batch only in a step in
\* which the request sent for that batch has returned a non-empty text, once and for
\* the notes of that batch; a step in which the request raised or returned an empty
\* text removes no tag; and once the user has answered q between two batches the
\* function returns: no further request is sent and no further tag is removed.
C23_TagsRemovedAfterResponse ==
    [][/\ (tag_log' # tag_log /\ tag_log' # <<>>) =>
              /\ pc \in {"batch_generate", "feedback_prompt"}
              /\ last_event' \in {"batch_text", "enter"}
              /\ Len(tag_log') = Len(tag_log) + 1
              /\ SubSeq(tag_log', 1, Len(tag_log)) = tag_log
              /\ tag_log'[Len(tag_log')].notes = BatchIds(yomitan_notes', batch_start)
              /\ batch_calls' # <<>>
              /\ batch_calls'[Len(batch_calls')] = batch_start
              /\ response_text' # <<>>
              /\ \A n \in DOMAIN tag_log :
                     tag_log[n].notes # BatchIds(yomitan_notes', batch_start)
       /\ (pc = "batch_generate"
              /\ last_event' \in {"batch_empty", "batch_503", "batch_error"}) =>
              /\ tag_log' = tag_log
              /\ batch_calls' = Append(batch_calls, batch_start)
              /\ \A n \in DOMAIN tag_log' :
                     tag_log'[n].notes # BatchIds(yomitan_notes', batch_start)
       /\ (pc = "batch_prompt" /\ last_event' = "q") =>
              /\ pc' = "checked"
              /\ tag_log' = tag_log
              /\ batch_calls' = batch_calls
       /\ pc = "checked" =>
              /\ pc' = "prompt"
              /\ Len(tag_log') <= Len(tag_log)
              /\ Len(batch_calls') <= Len(batch_calls)
      ]_vars

\* The request for the first batch returned a text and removeTags was sent for its
\* notes; the request for the second batch raised or returned nothing, and no
\* removeTags was sent for the notes of the second batch.
C23_Witness ==
    /\ pc = "checked"
    /\ last_event \in {"batch_empty", "batch_503", "batch_error"}
    /\ batch_calls = <<0, BATCH_SIZE>>
    /\ Len(tag_log) = 1
    /\ tag_log[1].notes = BatchIds(yomitan_notes, 0)
    /\ BatchIds(yomitan_notes, BATCH_SIZE) # {}
    /\ tag_log[1].notes \cap BatchIds(yomitan_notes, BATCH_SIZE) = {}

\* C24: at "Save this note?" the answer n drops the proposal without a call of
\* save_note: the cache and the notes Anki holds are unchanged, no request is sent
\* to Anki, nothing is recorded of a save_note call, and the count of saved notes is
\* carried on as it was (to the next proposal, or into the report after the last
\* one); save_note is entered only after y or an empty answer; any other answer
\* shows the same prompt for the same proposal again and changes nothing else.
C24_DeclineFrame ==
    [][pc = "save_prompt" =>
          /\ last_event' = "n" =>
                 /\ anki_notes_cache' = anki_notes_cache
                 /\ next_id' = next_id
                 /\ added' = added
                 /\ anki_log' = anki_log
                 /\ anki_log' = <<>>
                 /\ outcome' = "none"
                 /\ save_result' = 0
                 /\ decisions' = 0
                 /\ IF pc' = "save_prompt"
                    THEN /\ idx' = NextProposal(proposed_notes, idx)
                         /\ notes_saved_count' = notes_saved_count
                         /\ saved_count' = saved_count
                    ELSE /\ pc' = "prompt"
                         /\ NextProposal(proposed_notes, idx) = 0
                         /\ saved_count' = IF notes_saved_count > 0
                                           THEN notes_saved_count ELSE saved_count
          /\ pc' \in {"returned", "dup_prompt"} =>
                 /\ last_event' = "y"
                 /\ idx' = idx
                 /\ cache_before' = anki_notes_cache
          /\ last_event' = "invalid" =>
                 /\ pc' = "save_prompt"
                 /\ reasked'
                 /\ idx' = idx
                 /\ shown' = shown
                 /\ notes_saved_count' = notes_saved_count
                 /\ anki_notes_cache' = anki_notes_cache
                 /\ anki_log' = anki_log
      ]_vars

\* The last proposal of a response has just been declined in a session in which a
\* note was added before: the report still counts one saved note, and nothing is
\* recorded of a save_note call for the declined proposal.
C24_Witness ==
    /\ last_event = "n"
    /\ pc = "prompt"
    /\ saved_count = 1
    /\ added # <<>>
    /\ anki_log = <<>>
    /\ outcome = "none"
====
